---- MODULE Spec2Model ----
(***************************************************************************)
(* Model of backend/app.py: the session/file-cache registry of query       *)
(* engines, the Index Builder (setup_llama_index), the upload handler and  *)
(* the query handler, run as coroutines of one asyncio event loop.         *)
(*                                                                         *)
(* Both handlers are `async def`: a handler runs on the event loop and     *)
(* gives it up only at an `await`.  The only await in the file is          *)
(* `await file.read()` (line 102); every other statement, the whole of     *)
(* setup_llama_index included, runs with the loop held.  `running` is the  *)
(* request that holds the loop (0: the loop is free).  Requests arrive     *)
(* (the client sends them) at any time, also while the loop is held.       *)
(***************************************************************************)
EXTENDS Integers, FiniteSets, Sequences, TLC

\* ---- bounds ----
MaxRequests == 2

\* ---- input domains ----
SessionIds == {"u1", "u2"}
Filenames == {"a.pdf", "b.pdf"}
TempNames == {"tmp1", "tmp2"}
Answers == {"", "I don't know!"}

Requests == 1..MaxRequests
None == 0

VARIABLES session_state, Settings, API_KEY, tempdirs, req, running

vars == <<session_state, Settings, API_KEY, tempdirs, req, running>>

\* ---- pure helpers ----

\* f"{session_state['id']}-{file.filename}"
FileKey_name_only(sid, filename) == filename

FileKey(sid, filename) == sid \o "-" \o filename

\* file_keys a client may send to /query/: keys of either session id, or a
\* bare filename
QueryKeys == {s \o "-" \o f : s \in SessionIds, f \in Filenames} \cup {"a.pdf"}

\* exceptions are records; an HTTPException carries status_code and detail
Exc(msg) == [type |-> "Exception", status |-> 0, msg |-> msg]

HTTPException(status, detail) == [type |-> "HTTPException", status |-> status, msg |-> detail]

NoExc == [type |-> "none", status |-> 0, msg |-> ""]

StatusText(s) == CASE s = 404 -> "404" [] s = 500 -> "500" [] OTHER -> "0"

\* str(e): the message of an ordinary exception.  An HTTPException built
\* with keyword arguments has empty args, so str(e) is "" unless the
\* installed Starlette defines __str__ as "<status_code>: <detail>"; both
\* outcomes are possible for this source.
StrOf_repr(e) == {e.type \o ": " \o e.msg}

StrOf(e) ==
    IF e.type = "HTTPException"
    THEN {StatusText(e.status) \o ": " \o e.msg, ""}
    ELSE {e.msg}

\* responses: status, the single field of the JSON body, and its value
NoResponse == [status |-> 0, field |-> "none", value |-> ""]

\* raise HTTPException(status_code=500, detail=str(e))
Http500(detail) == [status |-> 500, field |-> "detail", value |-> detail]

\* the response FastAPI produces for an HTTPException that leaves a handler
HttpError(e) == [status |-> e.status, field |-> "detail", value |-> e.msg]

\* return {"id": session_state['id']}
UploadOk(sid) == [status |-> 200, field |-> "id", value |-> sid]

\* return {"message": response}
QueryOk(text) == [status |-> 200, field |-> "message", value |-> text]

\* session_state['file_cache'].get(key)
CacheGet(cache, key) == IF key \in DOMAIN cache THEN cache[key] ELSE None

\* session_state['file_cache'][key] = engine
CachePut_reset(cache, key, engine) == [k \in {key} |-> engine]

CachePut(cache, key, engine) ==
    [k \in (DOMAIN cache) \cup {key} |-> IF k = key THEN engine ELSE cache[k]]

\* tempfile.TemporaryDirectory(): mkdtemp takes a name that does not exist
FreshTempNames_any(dirs) == TempNames

FreshTempNames(dirs) == {d \in TempNames : dirs[d] = None}

\* leaving the `with` block: rmtree of the directory of that name
Cleanup_leak(dirs, d) == dirs

Cleanup(dirs, d) == [dirs EXCEPT ![d] = None]

\* the order of the steps of setup_llama_index
BuilderOrder_early_write == <<"load", "providers", "index", "engine", "cache_write", "prompts">>

BuilderOrder == <<"load", "providers", "index", "engine", "prompts", "cache_write">>

BuilderPcs == {BuilderOrder[i] : i \in 1..Len(BuilderOrder)}

PosOf(pc) == CHOOSE i \in 1..Len(BuilderOrder) : BuilderOrder[i] = pc

\* the statement after a builder step; after the last one the builder
\* returns to line 109 of upload_file
NextPc(pc) == IF PosOf(pc) = Len(BuilderOrder) THEN "store" ELSE BuilderOrder[PosOf(pc) + 1]

\* builder steps that call into the library and can raise; the cache write
\* and the return cannot
RaisingPcs == {"load", "providers", "index", "engine", "prompts"}

\* Settings.embed_model = embed_model (line 69, before from_documents);
\* Settings.llm = llm (line 73, before as_query_engine).  The objects are
\* created by this invocation: they are identified by the request.
SettingsAfter_both(S, pc, r) ==
    CASE pc = "index" -> [S EXCEPT !.embed_model = r, !.llm = r]
      [] pc = "engine" -> [S EXCEPT !.llm = r]
      [] OTHER -> S

SettingsAfter(S, pc, r) ==
    CASE pc = "index" -> [S EXCEPT !.embed_model = r]
      [] pc = "engine" -> [S EXCEPT !.llm = r]
      [] OTHER -> S

\* the local query_engine: created by as_query_engine with the library's
\* default prompts ("raw"), complete after update_prompts ("ready")
EngineAfter(e, pc) ==
    CASE pc = "engine" -> "raw"
      [] pc = "prompts" -> "ready"
      [] OTHER -> e

\* messages of the exceptions the library raises, by step
RaiseMsg(pc) ==
    CASE pc = "load" -> "No files found"
      [] pc = "providers" -> "provider configuration failed"
      [] pc = "index" -> "embedding request failed"
      [] pc = "engine" -> "query engine construction failed"
      [] pc = "prompts" -> "prompt update failed"
      [] OTHER -> "error"

\* ---- state ----

IdleReq ==
    [kind |-> "none", pc |-> "idle", filename |-> "", file_key |-> "",
     temp_dir |-> "", engine |-> "none", calls |-> 0, exc |-> NoExc,
     stage |-> "", response |-> NoResponse, present_at_entry |-> FALSE,
     after_ok_upload |-> FALSE, found |-> FALSE, arrived_during |-> ""]

\* the key whose engine is under construction right now ("" if none)
Constructing ==
    IF running # None /\ req[running].kind = "upload"
          /\ req[running].pc \in BuilderPcs \cup {"store"}
          /\ req[running].file_key \notin DOMAIN session_state.file_cache
    THEN req[running].file_key
    ELSE ""

Init ==
    /\ \E sid \in SessionIds : session_state = [id |-> sid, file_cache |-> <<>>]
    /\ Settings = [embed_model |-> None, llm |-> None]
    /\ API_KEY = "key"
    /\ tempdirs = [d \in TempNames |-> None]
    /\ req = [r \in Requests |-> IdleReq]
    /\ running = None

\* `file_key not in session_state['file_cache']` (line 107), negated
KeyInCache_never(r) == FALSE

KeyInCache_stale(r) == req[r].present_at_entry

KeyInCache(r) == req[r].file_key \in DOMAIN session_state.file_cache

\* ---- arrival of requests ----

IsNext(r) == req[r].pc = "idle" /\ \A q \in Requests : q < r => req[q].pc # "idle"

ArriveUpload(r) ==
    /\ IsNext(r)
    /\ \E f \in Filenames :
         req' = [req EXCEPT ![r] = [@ EXCEPT !.kind = "upload", !.pc = "queued",
                                              !.filename = f,
                                              !.arrived_during = Constructing]]
    /\ UNCHANGED <<session_state, Settings, API_KEY, tempdirs, running>>

ArriveQuery(r) ==
    /\ IsNext(r)
    /\ \E k \in QueryKeys :
         req' = [req EXCEPT ![r] = [@ EXCEPT !.kind = "query", !.pc = "queued",
                                              !.file_key = k,
                                              !.arrived_during = Constructing]]
    /\ UNCHANGED <<session_state, Settings, API_KEY, tempdirs, running>>

\* ---- upload_file ----

Finish(r, rec, resp) == [req EXCEPT ![r] = [rec EXCEPT !.pc = "done", !.response = resp]]

\* tempfile.TemporaryDirectory() raises: no usable name is left, or the
\* directory cannot be created
TempDirMsg(dirs) ==
    IF FreshTempNames(dirs) = {}
    THEN "No usable temporary directory name found"
    ELSE "No space left on device"

UploadTempDirFails(r) ==
    /\ running = None
    /\ req[r].kind = "upload" /\ req[r].pc = "queued"
    /\ LET e == Exc(TempDirMsg(tempdirs))
       IN \E s \in StrOf(e) :
            req' = Finish(r, [req[r] EXCEPT !.exc = e, !.stage = "file"], Http500(s))
    /\ UNCHANGED <<session_state, Settings, API_KEY, tempdirs, running>>

\* the directory is created, open(file_path, "wb") raises, the with block
\* removes the directory
UploadOpenFails(r) ==
    /\ running = None
    /\ req[r].kind = "upload" /\ req[r].pc = "queued"
    /\ \E d \in FreshTempNames(tempdirs) :
         /\ tempdirs' = Cleanup([tempdirs EXCEPT ![d] = r], d)
         /\ LET e == Exc("No such file or directory")
            IN \E s \in StrOf(e) :
                 req' = Finish(r, [req[r] EXCEPT !.exc = e, !.stage = "file",
                                                  !.temp_dir = d], Http500(s))
    /\ UNCHANGED <<session_state, Settings, API_KEY, running>>

\* lines 97-102 up to the await: the handler is suspended in file.read()
UploadBegin(r) ==
    /\ running = None
    /\ req[r].kind = "upload" /\ req[r].pc = "queued"
    /\ \E d \in FreshTempNames(tempdirs) :
         /\ tempdirs' = [tempdirs EXCEPT ![d] = r]
         /\ req' = [req EXCEPT ![r] =
               [@ EXCEPT !.pc = "reading", !.temp_dir = d,
                         !.present_at_entry =
                            FileKey(session_state.id, req[r].filename)
                               \in DOMAIN session_state.file_cache]]
    /\ UNCHANGED <<session_state, Settings, API_KEY, running>>

\* file.read() or f.write() raises
UploadWriteFails(r) ==
    /\ running = None
    /\ req[r].kind = "upload" /\ req[r].pc = "reading"
    /\ tempdirs' = Cleanup(tempdirs, req[r].temp_dir)
    /\ \E m \in {"read failed", "No space left on device"} :
         LET e == Exc(m)
         IN \E s \in StrOf(e) :
              req' = Finish(r, [req[r] EXCEPT !.exc = e, !.stage = "file"], Http500(s))
    /\ UNCHANGED <<session_state, Settings, API_KEY, running>>

\* the read returns, the bytes are written, file_key is computed (line 104)
UploadResume(r) ==
    /\ running = None
    /\ req[r].kind = "upload" /\ req[r].pc = "reading"
    /\ req' = [req EXCEPT ![r] =
          [@ EXCEPT !.pc = "check",
                    !.file_key = FileKey(session_state.id, req[r].filename)]]
    /\ running' = r
    /\ UNCHANGED <<session_state, Settings, API_KEY, tempdirs>>

\* line 107, key present: line 110, the with block ends
UploadCacheHit(r) ==
    /\ running = r
    /\ req[r].pc = "check"
    /\ KeyInCache(r)
    /\ tempdirs' = Cleanup(tempdirs, req[r].temp_dir)
    /\ req' = Finish(r, req[r], UploadOk(session_state.id))
    /\ running' = None
    /\ UNCHANGED <<session_state, Settings, API_KEY>>

\* line 107, key absent: line 108 calls setup_llama_index
UploadCacheMiss(r) ==
    /\ running = r
    /\ req[r].pc = "check"
    /\ ~KeyInCache(r)
    /\ req' = [req EXCEPT ![r] = [@ EXCEPT !.pc = BuilderOrder[1], !.calls = @ + 1]]
    /\ UNCHANGED <<session_state, Settings, API_KEY, tempdirs, running>>

\* ---- setup_llama_index ----

\* a step of the builder that calls the library returns
BuilderStep(r) ==
    /\ running = r
    /\ req[r].pc \in RaisingPcs
    /\ Settings' = SettingsAfter(Settings, req[r].pc, r)
    /\ req' = [req EXCEPT ![r] = [@ EXCEPT !.pc = NextPc(req[r].pc),
                                            !.engine = EngineAfter(@, req[r].pc)]]
    /\ UNCHANGED <<session_state, API_KEY, tempdirs, running>>

\* a step of the builder raises: the exception leaves setup_llama_index and
\* the with block (the directory is removed) and is caught at line 111
BuilderRaises(r) ==
    /\ running = r
    /\ req[r].pc \in RaisingPcs
    /\ Settings' = SettingsAfter(Settings, req[r].pc, r)
    /\ tempdirs' = Cleanup(tempdirs, req[r].temp_dir)
    /\ LET e == Exc(RaiseMsg(req[r].pc))
       IN \E s \in StrOf(e) :
            req' = Finish(r, [req[r] EXCEPT !.exc = e, !.stage = "builder"], Http500(s))
    /\ running' = None
    /\ UNCHANGED <<session_state, API_KEY>>

\* line 91: session_state['file_cache'][file_key] = query_engine
BuilderCacheWrite(r) ==
    /\ running = r
    /\ req[r].pc = "cache_write"
    /\ session_state' = [session_state EXCEPT
          !.file_cache = CachePut(@, req[r].file_key, r)]
    /\ req' = [req EXCEPT ![r] = [@ EXCEPT !.pc = NextPc("cache_write")]]
    /\ UNCHANGED <<Settings, API_KEY, tempdirs, running>>

\* lines 109-110: the second write of the same engine, the return, the end
\* of the with block
UploadStore(r) ==
    /\ running = r
    /\ req[r].pc = "store"
    /\ session_state' = [session_state EXCEPT
          !.file_cache = CachePut(@, req[r].file_key, r)]
    /\ tempdirs' = Cleanup(tempdirs, req[r].temp_dir)
    /\ req' = Finish(r, req[r], UploadOk(session_state.id))
    /\ running' = None
    /\ UNCHANGED <<Settings, API_KEY>>

\* ---- query ----

\* an upload of the file this key names has already returned 200
KeyUploadedOk(k) ==
    \E u \in Requests :
        /\ req[u].kind = "upload" /\ req[u].pc = "done"
        /\ req[u].response.status = 200
        /\ req[u].response.value \o "-" \o req[u].filename = k

\* lines 118-119, engine found
QueryLookup(r) ==
    /\ running = None
    /\ req[r].kind = "query" /\ req[r].pc = "queued"
    /\ CacheGet(session_state.file_cache, req[r].file_key) # None
    /\ req' = [req EXCEPT ![r] = [@ EXCEPT !.pc = "exec", !.found = TRUE,
                                            !.after_ok_upload = KeyUploadedOk(req[r].file_key)]]
    /\ running' = r
    /\ UNCHANGED <<session_state, Settings, API_KEY, tempdirs>>

\* lines 118-120, `not query_engine`: the HTTPException(404) is raised
\* inside the try block and caught by `except Exception` (line 126)
QueryNotFound(r) ==
    /\ running = None
    /\ req[r].kind = "query" /\ req[r].pc = "queued"
    /\ CacheGet(session_state.file_cache, req[r].file_key) = None
    /\ LET e == HTTPException(404, "Query engine not found.")
       IN \E s \in StrOf(e) :
            req' = Finish(r, [req[r] EXCEPT !.exc = e, !.stage = "lookup",
                                             !.after_ok_upload = KeyUploadedOk(req[r].file_key)],
                          Http500(s))
    /\ UNCHANGED <<session_state, Settings, API_KEY, tempdirs, running>>

\* lines 122-125
QueryExec(r) ==
    /\ running = r
    /\ req[r].pc = "exec"
    /\ \E text \in Answers :
         req' = Finish(r, [req[r] EXCEPT !.calls = @ + 1], QueryOk(text))
    /\ running' = None
    /\ UNCHANGED <<session_state, Settings, API_KEY, tempdirs>>

\* query_engine.query raises
QueryExecRaises(r) ==
    /\ running = r
    /\ req[r].pc = "exec"
    /\ LET e == Exc("upstream provider error")
       IN \E s \in StrOf(e) :
            req' = Finish(r, [req[r] EXCEPT !.calls = @ + 1, !.exc = e, !.stage = "exec"],
                          Http500(s))
    /\ running' = None
    /\ UNCHANGED <<session_state, Settings, API_KEY, tempdirs>>

Next ==
    \E r \in Requests :
        \/ ArriveUpload(r)
        \/ ArriveQuery(r)
        \/ UploadTempDirFails(r)
        \/ UploadOpenFails(r)
        \/ UploadBegin(r)
        \/ UploadWriteFails(r)
        \/ UploadResume(r)
        \/ UploadCacheHit(r)
        \/ UploadCacheMiss(r)
        \/ BuilderStep(r)
        \/ BuilderRaises(r)
        \/ BuilderCacheWrite(r)
        \/ UploadStore(r)
        \/ QueryLookup(r)
        \/ QueryNotFound(r)
        \/ QueryExec(r)
        \/ QueryExecRaises(r)

Spec == Init /\ [][Next]_vars

TypeOK ==
    /\ session_state.id \in SessionIds
    /\ running \in Requests \cup {None}
    /\ \A r \in Requests : req[r].calls \in 0..1

\* ---- properties ----

Done(r) == req[r].pc = "done"

IsUpload(r) == req[r].kind = "upload"

IsQuery(r) == req[r].kind = "query"

Ok(r) == Done(r) /\ req[r].response.status = 200

Cache == session_state.file_cache

\* the upload is between its key check and its return
InBuild(r) == IsUpload(r) /\ req[r].pc \in BuilderPcs \cup {"store"}

\* C1: a query whose file_key is not in the cache is answered with HTTP 404
\* and detail "Query engine not found."
C1_NotFound404 ==
    \A r \in Requests :
        (IsQuery(r) /\ Done(r) /\ ~req[r].found) =>
            req[r].response = HttpError(HTTPException(404, "Query engine not found."))

\* C2: once an upload of a filename has returned 200, no upload of that
\* filename invokes the Index Builder; all successful uploads return the
\* same id and at most one of them built
C2_State ==
    \A r1, r2 \in Requests :
        (IsUpload(r1) /\ IsUpload(r2) /\ Ok(r1) /\ Ok(r2)
            /\ req[r1].filename = req[r2].filename) =>
            /\ req[r1].response.value = req[r2].response.value
            /\ (r1 # r2 => req[r1].calls + req[r2].calls <= 1)

C2_Action ==
    \A r \in Requests :
        (IsUpload(r) /\ req'[r].calls > req[r].calls) =>
            ~KeyUploadedOk(session_state.id \o "-" \o req[r].filename)

C2_SecondUploadHitsCache == []C2_State /\ [][C2_Action]_vars

C2_Witness ==
    \E r1, r2 \in Requests :
        /\ IsUpload(r1) /\ IsUpload(r2) /\ Ok(r1) /\ Ok(r2)
        /\ req[r1].filename = req[r2].filename
        /\ req[r1].calls = 1
        /\ req[r2].calls = 0 /\ req[r2].present_at_entry

\* C3: a query with file_key = S-F looked up after an upload of F returned
\* 200 with id S finds an engine, is never answered not-found, and returns
\* 200 with a message field when the engine does not raise
C3_QueryAfterUpload ==
    \A r \in Requests :
        (IsQuery(r) /\ req[r].after_ok_upload) =>
            /\ req[r].found
            /\ req[r].response.status # 404
            /\ (Done(r) /\ req[r].exc = NoExc =>
                   req[r].response.status = 200 /\ req[r].response.field = "message")

C3_Witness ==
    \E r \in Requests :
        IsQuery(r) /\ req[r].after_ok_upload /\ Ok(r) /\ req[r].response.field = "message"

\* C4: an exception raised in file handling, in the Index Builder or in
\* query execution is answered with HTTP 500 whose detail is the exception's
\* message, after exactly one attempt and with no other field in the body
C4_Exceptions500 ==
    \A r \in Requests :
        (Done(r) /\ req[r].stage \in {"file", "builder", "exec"}) =>
            /\ req[r].response = Http500(req[r].exc.msg)
            /\ (req[r].stage = "file" => req[r].calls = 0)
            /\ (req[r].stage \in {"builder", "exec"} => req[r].calls = 1)

C4_Witness ==
    \E r, u \in Requests :
        /\ IsQuery(r) /\ Done(r) /\ req[r].stage = "exec"
        /\ req[r].response.status = 500
        /\ IsUpload(u) /\ Done(u) /\ req[u].stage = ""

\* C5: every cache entry was written by an Index Builder invocation that ran
\* to completion for that key; a builder that raises leaves the cache as it
\* was, the key absent
C5_State ==
    \A k \in DOMAIN Cache :
        LET b == Cache[k]
        IN /\ b \in Requests
           /\ IsUpload(b) /\ req[b].file_key = k
           /\ req[b].engine = "ready"
           /\ req[b].pc \in {"store", "done"}
           /\ req[b].exc = NoExc

C5_Action ==
    \A r \in Requests :
        (req[r].stage # "builder" /\ req'[r].stage = "builder") =>
            /\ session_state'.file_cache = session_state.file_cache
            /\ req[r].file_key \notin DOMAIN session_state'.file_cache

C5_CompleteBuildsOnly == []C5_State /\ [][C5_Action]_vars

C5_Witness ==
    \E r1, r2 \in Requests :
        /\ IsUpload(r1) /\ Done(r1) /\ req[r1].stage = "builder"
        /\ IsUpload(r2) /\ Ok(r2) /\ req[r2].calls = 1
        /\ req[r2].file_key = req[r1].file_key
        /\ Cache[req[r2].file_key] = r2

\* C6: a key of the cache stays in the cache, mapped to the same engine
C6_Step ==
    \A k \in DOMAIN session_state.file_cache :
        /\ k \in DOMAIN session_state'.file_cache
        /\ session_state'.file_cache[k] = session_state.file_cache[k]

C6_WriteOnce == [][C6_Step]_vars

C6_Witness ==
    \E r \in Requests :
        /\ IsUpload(r) /\ Ok(r) /\ req[r].calls = 0
        /\ req[r].file_key \in DOMAIN Cache
        /\ Cache[req[r].file_key] # r

C8_MidConstructionNotFound ==
    \A r \in Requests :
        (IsQuery(r) /\ Done(r) /\ req[r].arrived_during = req[r].file_key) =>
            (~req[r].found /\ req[r].response.status = 404)

\* C9: the temporary directory of an upload exists only while that upload
\* is being handled, and no two uploads in flight have the same one
InFlight(r) == IsUpload(r) /\ req[r].pc \notin {"idle", "queued", "done"}

C9_TempDirScoped ==
    /\ \A r \in Requests : ~InFlight(r) => \A d \in TempNames : tempdirs[d] # r
    /\ \A r \in Requests : InFlight(r) => tempdirs[req[r].temp_dir] = r
    /\ \A r1, r2 \in Requests :
          (r1 # r2 /\ InFlight(r1) /\ InFlight(r2)) => req[r1].temp_dir # req[r2].temp_dir

C9_Witness ==
    \E r1, r2 \in Requests :
        /\ IsUpload(r1) /\ Done(r1) /\ req[r1].stage = "builder"
        /\ tempdirs[req[r1].temp_dir] # r1
        /\ InFlight(r2)

\* C10 as stated: a request changes no process-wide variable other than
\* the cache
C10_OnlyCacheAndSession ==
    [][Settings' = Settings /\ API_KEY' = API_KEY
          /\ session_state'.id = session_state.id]_vars

\* C10 amended: besides the cache a request changes only Settings.embed_model
\* (the builder's index step) and Settings.llm (the builder's engine step);
\* queries and cache hits change neither; the session id and API_KEY keep
\* their start-up values
C10_Step ==
    /\ API_KEY' = API_KEY
    /\ session_state'.id = session_state.id
    /\ Settings'.embed_model # Settings.embed_model =>
          /\ running # None /\ IsUpload(running) /\ req[running].pc = "index"
          /\ Settings'.embed_model = running
    /\ Settings'.llm # Settings.llm =>
          /\ running # None /\ IsUpload(running) /\ req[running].pc = "engine"
          /\ Settings'.llm = running

C10_Frame == [][C10_Step]_vars

C10_Witness ==
    /\ Settings.embed_model # None
    /\ Settings.llm = None
    /\ \E r \in Requests : IsUpload(r) /\ Done(r) /\ req[r].stage = "builder"
====
